---- MODULE Spec2Model ----
(***************************************************************************)
(* Model of the default judging strategy of hydrojudge                     *)
(* (packages/hydrojudge/src/judge/default.ts): the case runner returned by *)
(* judgeCase(c), run for several cases on one shared judge context.        *)
(*                                                                         *)
(* JavaScript runs one callback at a time, so every action below is the    *)
(* code between two awaits of one invocation: it starts when the awaited   *)
(* promise settles and ends at the next await, return or throw.            *)
(***************************************************************************)
EXTENDS Integers, FiniteSets, Sequences, TLC

\* ---------------------------------------------------------------- bounds
NumCases == 2
MaxRerun == 2

\* ------------------------------------------------------ program constants
RerunTimeLimit == 5000
MemoryUnit == 1024
SignalLimit == 32

STATUS_ACCEPTED == "ACCEPTED"
STATUS_WRONG_ANSWER == "WRONG_ANSWER"
STATUS_TIME_LIMIT_EXCEEDED == "TIME_LIMIT_EXCEEDED"
STATUS_MEMORY_LIMIT_EXCEEDED == "MEMORY_LIMIT_EXCEEDED"
STATUS_RUNTIME_ERROR == "RUNTIME_ERROR"
STATUS_SYSTEM_ERROR == "SYSTEM_ERROR"

STATUS ==
    { STATUS_ACCEPTED, STATUS_WRONG_ANSWER, STATUS_TIME_LIMIT_EXCEEDED,
      STATUS_MEMORY_LIMIT_EXCEEDED, STATUS_RUNTIME_ERROR, STATUS_SYSTEM_ERROR }

\* The sandbox is asked to cache stdout and stderr, so these are the keys
\* res.fileIds can carry.
FileNames == {"stdout", "stderr"}

Cases == 1 .. NumCases

\* The two compilations of the compile stage: ctx.compile for ctx.execute,
\* ctx.compileLocalFile for ctx.checker.
CompileJobs == {"execute", "checker"}

\* ------------------------------------------------------------ input sets
\* The normalized cases the test data can hold.  wide = TRUE gives the cases
\* around the 5000 ms retry threshold, wide = FALSE one short case.
NormalizedCases(wide) ==
    IF wide
    THEN [time : {2000, 5000, 5001}, memory : {1}, score : {100}]
    ELSE [time : {2000}, memory : {1}, score : {100}]

\* What the sandbox can answer for case cs: a run that claims success with
\* its usage at or just above each limit, and the failing statuses.
RunResults(cs, wide) ==
    IF wide
    THEN [status : {STATUS_ACCEPTED}, code : {0}, signalled : {FALSE},
          time : {cs.time, cs.time + 1},
          memory : {cs.memory * MemoryUnit, cs.memory * MemoryUnit + 1},
          fileIds : SUBSET FileNames]
         \cup
         [status : {STATUS_RUNTIME_ERROR}, code : {0, 11, 31, 32}, signalled : BOOLEAN,
          time : {cs.time}, memory : {cs.memory * MemoryUnit},
          fileIds : SUBSET FileNames]
         \cup
         [status : {STATUS_TIME_LIMIT_EXCEEDED, STATUS_MEMORY_LIMIT_EXCEEDED,
                    STATUS_SYSTEM_ERROR},
          code : {0, 9}, signalled : BOOLEAN,
          time : {cs.time + 1}, memory : {cs.memory * MemoryUnit},
          fileIds : SUBSET FileNames]
    ELSE [status : {STATUS_ACCEPTED, STATUS_TIME_LIMIT_EXCEEDED, STATUS_RUNTIME_ERROR},
          code : {0}, signalled : {FALSE},
          time : {cs.time}, memory : {cs.memory * MemoryUnit},
          fileIds : {{"stdout"}}]

\* Whether the caller passes the runner as third argument: the flow engine
\* passes the runner itself (wide = FALSE); a caller may also leave it out.
RunnerArgs(wide) == IF wide THEN BOOLEAN ELSE {TRUE}

\* message = '': no message.
NoMessage == [text |-> "", code |-> 0]

\* A message written by a checker.
CheckerMessage == [text |-> "checker", code |-> 0]

\* signals[code]: the table's entry for a signal number.
signals(code) == [text |-> "signal", code |-> code]

\* { message: 'Your program returned {0}.', params: [code] }
ReturnedMessage(code) == [text |-> "Your program returned {0}.", code |-> code]

\* What a checker can return for case cs.
CheckerResults(cs, wide) ==
    IF wide
    THEN [status : STATUS, score : {0, cs.score},
          message : {NoMessage, CheckerMessage}]
    ELSE { [status |-> STATUS_ACCEPTED, score |-> cs.score, message |-> NoMessage],
           [status |-> STATUS_WRONG_ANSWER, score |-> 0, message |-> CheckerMessage] }

\* -------------------------------------------------------------- helpers
NoRes ==
    [status |-> "none", code |-> 0, signalled |-> FALSE, time |-> 0,
     memory |-> 0, fileIds |-> {}]

NoChk == [status |-> "none", score |-> 0, message |-> NoMessage]

NoRet == [kind |-> "none"]

Thrown == [kind |-> "thrown"]

\* The subtask the flow engine runs case t in.
SubtaskId(t) == (t + 1) \div 2

VARIABLES
    rerun,          \* ctx.rerun
    analysis,       \* ctx.analysis
    rejudged,       \* ctx.request.rejudged
    c,              \* c[t]: the NormalizedCase of case t
    pc,             \* pc[t]: where the running invocation of case t waits
    runner,         \* runner[t]: the running invocation was given a runner
    depth,          \* depth[t]: invocations of case t suspended at line 56
    res,            \* res[t]: the RunResult of the running invocation
    status,         \* the locals status, score, message of the invocation
    score,
    message,
    dels,           \* dels[t][f]: the del() promise of file id f
    ret,            \* ret[t]: what the invocation handed to its caller
    \* history
    initRerun,      \* ctx.rerun when the flow started
    retries,        \* retries fired over the submission
    analysisCalls,  \* ctx.runAnalysis invocations over the submission
    attempts,       \* attempts[t]: sandbox runs submitted for case t
    flowRunner,     \* flowRunner[t]: the flow engine passed a runner
    firstRaw,       \* firstRaw[t]: raw status of the first run of case t
    allTLE,         \* allTLE[t]: every attempt so far classified TLE
    checkerCalls,   \* checkerCalls[t]: checker invocations of the attempt
    chk,            \* chk[t]: what the checker returned to the attempt
    delCalls,       \* delCalls[t][f]: del() invocations for file id f
    open,           \* open[t]: <<attempt, f>> for the file ids the sandbox
                    \* returned and whose deletion has not settled
    \* the flow and the rest of the context
    stage,          \* where the flow is: start, compile, judging, failed
    compiles,       \* compiles[k]: the promise of compile job k
    execute,        \* ctx.execute
    checker,        \* ctx.checker
    env,            \* ctx.env, as the set of its keys
    ctxSubtask      \* ctxSubtask[t]: the SubtaskContext case t is run with

ctxVars == <<rerun, analysis, rejudged>>
frameVars == <<pc, runner, depth, res, status, score, message, dels, ret>>
histVars ==
    <<initRerun, retries, analysisCalls, attempts, flowRunner, firstRaw,
      allTLE, checkerCalls, chk, delCalls>>
flowVars == <<stage, compiles, execute, checker, ctxSubtask>>
vars == <<ctxVars, c, frameVars, histVars, open, flowVars, env>>

\* ------------------------------------------------------- classification
\* default.ts line 32
TimeExceeded(r, cs) == r.time > cs.time

\* Line 34 without the factor 1024.
MemoryExceeded_NoUnit(r, cs) == r.memory > cs.memory

\* default.ts line 34
MemoryExceeded(r, cs) == r.memory > cs.memory * MemoryUnit

\* Lines 32-37 without the test of line 31.
NeedsChecker_AnyStatus(r, cs) ==
    /\ ~TimeExceeded(r, cs)
    /\ ~MemoryExceeded(r, cs)

\* The run reaches the checker call of line 37.
NeedsChecker(r, cs) ==
    /\ r.status = STATUS_ACCEPTED
    /\ ~TimeExceeded(r, cs)
    /\ ~MemoryExceeded(r, cs)

\* Lines 32-35 with the memory test first.
ClassifyStatus_MemoryFirst(r, cs) ==
    IF r.status = STATUS_ACCEPTED
    THEN IF MemoryExceeded(r, cs) THEN STATUS_MEMORY_LIMIT_EXCEEDED
         ELSE IF TimeExceeded(r, cs) THEN STATUS_TIME_LIMIT_EXCEEDED
         ELSE r.status
    ELSE r.status

\* The status lines 28-36 leave in `status` when the checker is not called.
ClassifyStatus(r, cs) ==
    IF r.status = STATUS_ACCEPTED
    THEN IF TimeExceeded(r, cs) THEN STATUS_TIME_LIMIT_EXCEEDED
         ELSE IF MemoryExceeded(r, cs) THEN STATUS_MEMORY_LIMIT_EXCEEDED
         ELSE r.status
    ELSE r.status

\* Line 50 with code <= 32.
ClassifyMessage_Inclusive(r) ==
    IF r.status = STATUS_RUNTIME_ERROR /\ r.code # 0
    THEN IF r.code <= SignalLimit /\ r.signalled
         THEN signals(r.code)
         ELSE ReturnedMessage(r.code)
    ELSE NoMessage

\* Line 49 without the test of the status.
ClassifyMessage_AnyStatus(r) ==
    IF r.code # 0
    THEN IF r.code < SignalLimit /\ r.signalled
         THEN signals(r.code)
         ELSE ReturnedMessage(r.code)
    ELSE NoMessage

\* The message lines 29 and 49-52 leave in `message`.
ClassifyMessage(r) ==
    IF r.status = STATUS_RUNTIME_ERROR /\ r.code # 0
    THEN IF r.code < SignalLimit /\ r.signalled
         THEN signals(r.code)
         ELSE ReturnedMessage(r.code)
    ELSE NoMessage

\* Line 46 with the key written into ctx.env itself.
CtxEnvAfterCheckerCall_InPlace(t) == env \cup {"HYDRO_TESTCASE"}

\* ctx.env after line 46: { ...ctx.env, HYDRO_TESTCASE } is a copy.
CtxEnvAfterCheckerCall(t) == env

\* Object.values(res.fileIds): the ids line 53 hands to del().
DeletedIds(r) == r.fileIds

\* Line 54 with c.time < 5000.
RetryCond_StrictTime(t) ==
    /\ runner[t]
    /\ rerun # 0
    /\ c[t].time < RerunTimeLimit
    /\ status[t] = STATUS_TIME_LIMIT_EXCEEDED

\* Line 54 without the test of ctx.rerun.
RetryCond_NoBudget(t) ==
    /\ runner[t]
    /\ c[t].time <= RerunTimeLimit
    /\ status[t] = STATUS_TIME_LIMIT_EXCEEDED

\* The condition of line 54.
RetryCond(t) ==
    /\ runner[t]
    /\ rerun # 0
    /\ c[t].time <= RerunTimeLimit
    /\ status[t] = STATUS_TIME_LIMIT_EXCEEDED

\* Line 58 without the test of ctx.analysis.
AnalysisCond_NoFlag(t) ==
    /\ ~rejudged
    /\ status[t] \in {STATUS_WRONG_ANSWER, STATUS_RUNTIME_ERROR}

\* The condition of line 58.
AnalysisCond(t) ==
    /\ ~rejudged
    /\ ~analysis
    /\ status[t] \in {STATUS_WRONG_ANSWER, STATUS_RUNTIME_ERROR}

\* Lines 62-70 with the subtask's id as id.
CaseResult_SubtaskAsId(t) ==
    [kind |-> "value", id |-> SubtaskId(t), subtaskId |-> ctxSubtask[t].subtask.id,
     status |-> status[t], score |-> score[t], time |-> res[t].time,
     memory |-> res[t].memory, message |-> message[t]]

\* Lines 62-70 with the case's full score.
CaseResult_FullScore(t) ==
    [kind |-> "value", id |-> t, subtaskId |-> ctxSubtask[t].subtask.id,
     status |-> status[t], score |-> c[t].score, time |-> res[t].time,
     memory |-> res[t].memory, message |-> message[t]]

\* The object of lines 62-70.
CaseResult(t) ==
    [kind |-> "value", id |-> t, subtaskId |-> ctxSubtask[t].subtask.id,
     status |-> status[t], score |-> score[t], time |-> res[t].time,
     memory |-> res[t].memory, message |-> message[t]]

\* ------------------------------------------------------------- fragments
\* Line 53: one del() per file id, all awaited together.
Cleanup(t, r) ==
    /\ dels' = [dels EXCEPT ![t] =
                  [f \in FileNames |-> IF f \in DeletedIds(r) THEN "pending" ELSE "none"]]
    /\ delCalls' = [delCalls EXCEPT ![t] =
                  [f \in FileNames |->
                      IF f \in DeletedIds(r) THEN delCalls[t][f] + 1 ELSE delCalls[t][f]]]
    /\ pc' = [pc EXCEPT ![t] = "del"]

\* The invocation ends with value v; a caller suspended at line 56 is next.
Finish(t, v) ==
    /\ ret' = [ret EXCEPT ![t] = v]
    /\ pc' = [pc EXCEPT ![t] = IF depth[t] = 0 THEN "done" ELSE "unwind"]

\* ----------------------------------------------------------------- Init
InitCtx ==
    /\ rerun \in 0 .. MaxRerun
    /\ analysis = FALSE
    /\ rejudged \in BOOLEAN
    /\ initRerun = rerun
    /\ retries = 0
    /\ analysisCalls = 0

InitFrames(scheduled) ==
    /\ pc = [t \in Cases |-> IF t \in scheduled THEN "ready" ELSE "idle"]
    /\ runner = [t \in Cases |-> FALSE]
    /\ depth = [t \in Cases |-> 0]
    /\ res = [t \in Cases |-> NoRes]
    /\ status = [t \in Cases |-> "none"]
    /\ score = [t \in Cases |-> 0]
    /\ message = [t \in Cases |-> NoMessage]
    /\ dels = [t \in Cases |-> [f \in FileNames |-> "none"]]
    /\ ret = [t \in Cases |-> NoRet]
    /\ attempts = [t \in Cases |-> 0]
    /\ flowRunner = [t \in Cases |-> FALSE]
    /\ firstRaw = [t \in Cases |-> "none"]
    /\ allTLE = [t \in Cases |-> TRUE]
    /\ checkerCalls = [t \in Cases |-> 0]
    /\ chk = [t \in Cases |-> NoChk]
    /\ delCalls = [t \in Cases |-> [f \in FileNames |-> 0]]
    /\ open = [t \in Cases |-> {}]
    /\ env = {}
    /\ ctxSubtask = [t \in Cases |-> [subtask |-> [id |-> SubtaskId(t)]]]

\* The flow before the compile stage (compiled = FALSE) or once it has
\* completed (compiled = TRUE).
InitFlow(compiled) ==
    /\ stage = IF compiled THEN "judging" ELSE "start"
    /\ compiles = [k \in CompileJobs |-> IF compiled THEN "ok" ELSE "none"]
    /\ execute = IF compiled THEN "compiled" ELSE "unset"
    /\ checker = IF compiled THEN "compiled" ELSE "unset"

\* The flow engine schedules every case of the submission.
Init ==
    /\ InitCtx
    /\ c \in [Cases -> NormalizedCases(FALSE)]
    /\ InitFrames(Cases)
    /\ InitFlow(TRUE)

\* The flow engine schedules one case, drawn from the wide input sets.
InitCase ==
    /\ InitCtx
    /\ \E cs \in NormalizedCases(TRUE) : c = [t \in Cases |-> cs]
    /\ InitFrames({1})
    /\ InitFlow(TRUE)

\* -------------------------------------------------------------- actions
\* The flow engine runs cases only once the compile stage has completed.
FlowRunsCases == stage = "judging"

\* The flow engine calls the case runner of case t (line 10); lines 11-24
\* submit the run.
Invoke(t, wide) ==
    /\ FlowRunsCases
    /\ pc[t] = "ready"
    /\ \E r \in RunnerArgs(wide) :
        /\ runner' = [runner EXCEPT ![t] = r]
        /\ flowRunner' = [flowRunner EXCEPT ![t] = r]
    /\ pc' = [pc EXCEPT ![t] = "exec"]
    /\ attempts' = [attempts EXCEPT ![t] = 1]
    /\ UNCHANGED <<flowVars, env, open, ctxVars, c, depth, res, status, score, message, dels, ret>>
    /\ UNCHANGED <<initRerun, retries, analysisCalls, firstRaw, allTLE,
                   checkerCalls, chk, delCalls>>

\* runQueued resolves (line 12); lines 25-53 run up to the next await:
\* the checker call of line 37, or the deletions of line 53.
Execute(t, wide) ==
    /\ pc[t] = "exec"
    /\ \E r \in RunResults(c[t], wide) :
        /\ res' = [res EXCEPT ![t] = r]
        /\ firstRaw' = [firstRaw EXCEPT ![t] = IF depth[t] = 0 THEN r.status ELSE @]
        /\ score' = [score EXCEPT ![t] = 0]
        /\ open' = [open EXCEPT ![t] = @ \cup ({attempts[t]} \X r.fileIds)]
        /\ IF NeedsChecker(r, c[t])
           THEN /\ status' = [status EXCEPT ![t] = r.status]
                /\ env' = CtxEnvAfterCheckerCall(t)
                /\ message' = [message EXCEPT ![t] = NoMessage]
                /\ checkerCalls' = [checkerCalls EXCEPT ![t] = @ + 1]
                /\ pc' = [pc EXCEPT ![t] = "checker"]
                /\ UNCHANGED <<dels, delCalls, allTLE>>
           ELSE /\ status' = [status EXCEPT ![t] = ClassifyStatus(r, c[t])]
                /\ message' = [message EXCEPT ![t] = ClassifyMessage(r)]
                /\ allTLE' = [allTLE EXCEPT ![t] =
                                @ /\ ClassifyStatus(r, c[t]) = STATUS_TIME_LIMIT_EXCEEDED]
                /\ Cleanup(t, r)
                /\ UNCHANGED <<checkerCalls, env>>
    /\ UNCHANGED <<flowVars, ctxVars, c, runner, depth, ret>>
    /\ UNCHANGED <<initRerun, retries, analysisCalls, attempts, flowRunner, chk>>

\* Line 12 in a try block whose catch returns a SYSTEM_ERROR result.
ExecuteFail_AsVerdict(t) ==
    /\ pc[t] = "exec"
    /\ Finish(t, [CaseResult(t) EXCEPT !.status = STATUS_SYSTEM_ERROR])
    /\ UNCHANGED <<flowVars, env, open, ctxVars, c, runner, depth, res, status, score, message, dels>>
    /\ UNCHANGED histVars

\* runQueued rejects: nothing in judgeCase catches it.
ExecuteFail(t) ==
    /\ pc[t] = "exec"
    /\ Finish(t, Thrown)
    /\ UNCHANGED <<flowVars, env, open, ctxVars, c, runner, depth, res, status, score, message, dels>>
    /\ UNCHANGED histVars

\* The checker resolves (line 37): its status, score and message are
\* assigned, then line 53 starts the deletions.
CheckerReturn(t, wide) ==
    /\ pc[t] = "checker"
    /\ \E k \in CheckerResults(c[t], wide) :
        /\ status' = [status EXCEPT ![t] = k.status]
        /\ score' = [score EXCEPT ![t] = k.score]
        /\ message' = [message EXCEPT ![t] = k.message]
        /\ chk' = [chk EXCEPT ![t] = k]
        /\ allTLE' = [allTLE EXCEPT ![t] = @ /\ k.status = STATUS_TIME_LIMIT_EXCEEDED]
    /\ Cleanup(t, res[t])
    /\ UNCHANGED <<flowVars, env, open, ctxVars, c, runner, depth, res, ret>>
    /\ UNCHANGED <<initRerun, retries, analysisCalls, attempts, flowRunner,
                   firstRaw, checkerCalls>>

\* The checker rejects: the exception leaves judgeCase from line 37.
CheckerFail(t) ==
    /\ pc[t] = "checker"
    /\ Finish(t, Thrown)
    /\ UNCHANGED <<flowVars, env, open, ctxVars, c, runner, depth, res, status, score, message, dels>>
    /\ UNCHANGED histVars

\* One del() promise settles, fulfilled or rejected.
DelSettle(t) ==
    /\ pc[t] = "del"
    /\ \E f \in FileNames, outcome \in {"ok", "failed"} :
        /\ dels[t][f] = "pending"
        /\ dels' = [dels EXCEPT ![t][f] = outcome]
        /\ open' = [open EXCEPT ![t] = @ \ {<<attempts[t], f>>}]
    /\ UNCHANGED <<flowVars, env, ctxVars, c, pc, runner, depth, res, status, score, message, ret>>
    /\ UNCHANGED histVars

\* Line 53 without the await.
Settled_NotAwaited(t) == TRUE

\* Promise.allSettled (line 53): every del() promise is fulfilled or rejected.
Settled(t) == \A f \in FileNames : dels[t][f] # "pending"

\* Promise.allSettled resolves (line 53) and its array of outcomes is
\* dropped; lines 54-70 run up to the next await or the return.
AllSettled(t) ==
    /\ pc[t] = "del"
    /\ Settled(t)
    /\ dels' = [dels EXCEPT ![t] = [f \in FileNames |-> "none"]]
    /\ IF RetryCond(t)
       THEN \* lines 55-56: runner(ctx, ctxSubtask), no third argument; the
            \* new invocation runs lines 11-24 and waits for the sandbox.
            /\ rerun' = rerun - 1
            /\ retries' = retries + 1
            /\ depth' = [depth EXCEPT ![t] = @ + 1]
            /\ runner' = [runner EXCEPT ![t] = FALSE]
            /\ attempts' = [attempts EXCEPT ![t] = @ + 1]
            /\ pc' = [pc EXCEPT ![t] = "exec"]
            /\ res' = [res EXCEPT ![t] = NoRes]
            /\ status' = [status EXCEPT ![t] = "none"]
            /\ score' = [score EXCEPT ![t] = 0]
            /\ message' = [message EXCEPT ![t] = NoMessage]
            /\ checkerCalls' = [checkerCalls EXCEPT ![t] = 0]
            /\ chk' = [chk EXCEPT ![t] = NoChk]
            /\ delCalls' = [delCalls EXCEPT ![t] = [f \in FileNames |-> 0]]
            /\ UNCHANGED <<analysis, analysisCalls, ret>>
       ELSE /\ IF AnalysisCond(t)
               THEN \* lines 59-60
                    /\ analysis' = TRUE
                    /\ analysisCalls' = analysisCalls + 1
                    /\ pc' = [pc EXCEPT ![t] = "analysis"]
                    /\ UNCHANGED ret
               ELSE /\ Finish(t, CaseResult(t))
                    /\ UNCHANGED <<analysis, analysisCalls>>
            /\ UNCHANGED <<rerun, retries, depth, runner, attempts, res, status,
                           score, message, checkerCalls, chk, delCalls>>
    /\ UNCHANGED <<flowVars, env, open, rejudged, c, initRerun, flowRunner, firstRaw, allTLE>>

\* ctx.runAnalysis resolves (line 60); lines 62-70 return the result.
AnalysisReturn(t) ==
    /\ pc[t] = "analysis"
    /\ Finish(t, CaseResult(t))
    /\ UNCHANGED <<flowVars, env, open, ctxVars, c, runner, depth, res, status, score, message, dels>>
    /\ UNCHANGED histVars

\* Line 60 in a try block whose catch clears ctx.analysis and rethrows.
AnalysisFail_ClearsFlag(t) ==
    /\ pc[t] = "analysis"
    /\ Finish(t, Thrown)
    /\ analysis' = FALSE
    /\ UNCHANGED <<flowVars, env, open, rerun, rejudged, c, runner, depth, res, status, score, message, dels>>
    /\ UNCHANGED histVars

\* ctx.runAnalysis rejects: the exception leaves judgeCase from line 60.
AnalysisFail(t) ==
    /\ pc[t] = "analysis"
    /\ Finish(t, Thrown)
    /\ UNCHANGED <<flowVars, env, open, ctxVars, c, runner, depth, res, status, score, message, dels>>
    /\ UNCHANGED histVars

\* `return await runner(ctx, ctxSubtask)` (line 56): the suspended caller
\* hands on the value, or the exception, of the invocation it awaited.
Unwind(t) ==
    /\ pc[t] = "unwind"
    /\ depth' = [depth EXCEPT ![t] = @ - 1]
    /\ pc' = [pc EXCEPT ![t] = IF depth[t] = 1 THEN "done" ELSE "unwind"]
    /\ UNCHANGED <<flowVars, env, open, ctxVars, c, runner, res, status, score, message, dels, ret>>
    /\ UNCHANGED histVars

\* ------------------------------------------------------- compile stage
caseVars == <<ctxVars, c, frameVars, histVars, open, env, ctxSubtask>>

\* Promise.race in place of Promise.all (line 76).
CompileJoined_Any == \E k \in CompileJobs : compiles[k] = "ok"

\* Promise.all (line 76) fulfils: every compilation has succeeded.
CompileJoined == \A k \in CompileJobs : compiles[k] = "ok"

\* Promise.all (line 76) rejects: a compilation has failed.
CompileRejected == \E k \in CompileJobs : compiles[k] = "failed"

\* The flow engine calls compile (line 75): lines 77-78 start both
\* compilations, line 76 waits for them.
Compile ==
    /\ stage = "start"
    /\ stage' = "compile"
    /\ compiles' = [k \in CompileJobs |-> "pending"]
    /\ UNCHANGED <<execute, checker, caseVars>>

\* One compilation ends, with a handle or with a failure.
CompileSettle ==
    /\ \E k \in CompileJobs, outcome \in {"ok", "failed"} :
        /\ compiles[k] = "pending"
        /\ compiles' = [compiles EXCEPT ![k] = outcome]
    /\ UNCHANGED <<stage, execute, checker, caseVars>>

\* Line 76: both handles are assigned at once and compile returns.
CompileResolve ==
    /\ stage = "compile"
    /\ CompileJoined
    /\ execute' = "compiled"
    /\ checker' = "compiled"
    /\ stage' = "judging"
    /\ UNCHANGED <<compiles, caseVars>>

\* Line 76 throws out of compile: nothing is assigned and the flow fails.
CompileReject ==
    /\ stage = "compile"
    /\ CompileRejected
    /\ stage' = "failed"
    /\ UNCHANGED <<compiles, execute, checker, caseVars>>

\* -------------------------------------------------------- specifications
\* Every case of the submission, concurrently, on the narrow input sets.
Next ==
    \/ \E t \in Cases : Invoke(t, FALSE)
    \/ \E t \in Cases : Execute(t, FALSE)
    \/ \E t \in Cases : ExecuteFail(t)
    \/ \E t \in Cases : CheckerReturn(t, FALSE)
    \/ \E t \in Cases : CheckerFail(t)
    \/ \E t \in Cases : DelSettle(t)
    \/ \E t \in Cases : AllSettled(t)
    \/ \E t \in Cases : AnalysisReturn(t)
    \/ \E t \in Cases : AnalysisFail(t)
    \/ \E t \in Cases : Unwind(t)

Spec == Init /\ [][Next]_vars

\* One case, on the wide input sets.
NextCase ==
    \/ \E t \in Cases : Invoke(t, TRUE)
    \/ \E t \in Cases : Execute(t, TRUE)
    \/ \E t \in Cases : ExecuteFail(t)
    \/ \E t \in Cases : CheckerReturn(t, TRUE)
    \/ \E t \in Cases : CheckerFail(t)
    \/ \E t \in Cases : DelSettle(t)
    \/ \E t \in Cases : AllSettled(t)
    \/ \E t \in Cases : AnalysisReturn(t)
    \/ \E t \in Cases : AnalysisFail(t)
    \/ \E t \in Cases : Unwind(t)

SpecCase == InitCase /\ [][NextCase]_vars

\* ================================================================ claims
\* The attempt of case t passes line 54 in this step.
Decides(t) == pc[t] = "del" /\ pc'[t] # "del"

\* Line 56 calls the runner again in this step.
RetryFires(t) == depth'[t] = depth[t] + 1

\* The attempt of case t returns a value of its own in this step.
ReturnsOwn(t) ==
    /\ pc[t] \in {"del", "analysis"}
    /\ pc'[t] \in {"unwind", "done"}
    /\ ret'[t].kind = "value"

\* C1: an attempt retries if and only if it was given a runner, the rerun
\* budget is greater than zero, c.time <= 5000 and its classified status is
\* TIME_LIMIT_EXCEEDED.  A retry takes exactly one from rerun and the
\* callers hand on the retried attempt's result unchanged; without a retry
\* rerun stays as it is and the attempt returns the result made of its own
\* status, score, message and of the time and memory of its own run.
C1_RetryIff ==
    [][\A t \in Cases :
        /\ Decides(t) =>
              (RetryFires(t) <=>
                  /\ runner[t]
                  /\ rerun > 0
                  /\ c[t].time <= 5000
                  /\ status[t] = STATUS_TIME_LIMIT_EXCEEDED)
        /\ RetryFires(t) => Decides(t) /\ rerun' = rerun - 1 /\ ret'[t] = ret[t]
        /\ (Decides(t) /\ ~RetryFires(t)) => rerun' = rerun
        /\ ReturnsOwn(t) =>
              /\ ret'[t].status = status[t]
              /\ ret'[t].score = score[t]
              /\ ret'[t].message = message[t]
              /\ ret'[t].time = res[t].time
              /\ ret'[t].memory = res[t].memory
        /\ pc[t] = "unwind" => ret'[t] = ret[t]
        /\ pc[t] = "done" => ret'[t] = ret[t]
      ]_vars

\* C1 witness: a retry fired and the caller got the retried attempt's
\* ACCEPTED result, not the TIME_LIMIT_EXCEEDED of the original attempt.
C1_Witness ==
    \E t \in Cases :
        /\ pc[t] = "done"
        /\ attempts[t] = 2
        /\ rerun = initRerun - 1
        /\ ret[t].kind = "value"
        /\ ret[t].status = STATUS_ACCEPTED
        /\ ret[t].score = c[t].score

\* C2: over the submission the retries fired never exceed the initial rerun
\* budget and rerun never goes below zero, under every interleaving of the
\* concurrent case invocations: each retry takes exactly one from a budget
\* it found positive.
C2_BudgetNeverExceeded ==
    /\ retries <= initRerun
    /\ rerun >= 0
    /\ rerun = initRerun - retries

\* C2 witness: two cases timed out concurrently on a budget of one; one of
\* them retried, the other found the budget spent and returned its
\* TIME_LIMIT_EXCEEDED.
C2_Witness ==
    \E t, u \in Cases :
        /\ t # u
        /\ initRerun = 1
        /\ rerun = 0
        /\ attempts[t] = 2
        /\ flowRunner[u]
        /\ attempts[u] = 1
        /\ pc[u] = "done"
        /\ ret[u].kind = "value"
        /\ ret[u].status = STATUS_TIME_LIMIT_EXCEEDED

\* C3: the analysis is invoked at most once over the submission, never for a
\* rejudge, and only by an attempt whose status is WRONG_ANSWER or
\* RUNTIME_ERROR.
C3_AnalysisAtMostOnce ==
    /\ analysisCalls <= 1
    /\ rejudged => analysisCalls = 0
    /\ analysis <=> analysisCalls = 1
    /\ Cardinality({t \in Cases : pc[t] = "analysis"}) <= 1
    /\ \A t \in Cases :
          pc[t] = "analysis" =>
              status[t] \in {STATUS_WRONG_ANSWER, STATUS_RUNTIME_ERROR}

\* C3 witness: two cases ended WRONG_ANSWER or RUNTIME_ERROR and the
\* analysis ran once.
C3_Witness ==
    \E t, u \in Cases :
        /\ t # u
        /\ analysisCalls = 1
        /\ pc[t] = "done" /\ ret[t].kind = "value"
        /\ pc[u] = "done" /\ ret[u].kind = "value"
        /\ ret[t].status = STATUS_RUNTIME_ERROR
        /\ ret[u].status = STATUS_WRONG_ANSWER

\* C4: a case with c.time = 2000 that the flow engine invoked with the
\* runner itself, on a budget of 2, and whose every attempt ended
\* TIME_LIMIT_EXCEEDED, has made three attempts and left rerun at 0 when
\* its result is returned.
C4_RetriesUntilBudgetSpent ==
    \A t \in Cases :
        (/\ pc[t] = "done"
         /\ ret[t].kind = "value"
         /\ flowRunner[t]
         /\ c[t].time = 2000
         /\ initRerun = 2
         /\ allTLE[t])
        => (attempts[t] = 3 /\ rerun = 0)

\* C5: a run reported ACCEPTED with time > c.time is classified
\* TIME_LIMIT_EXCEEDED with score 0 and never reaches the checker, whatever
\* memory it reports.
C5_TimeLimitFirst ==
    \A t \in Cases :
        (res[t].status = STATUS_ACCEPTED /\ res[t].time > c[t].time) =>
            /\ status[t] = STATUS_TIME_LIMIT_EXCEEDED
            /\ score[t] = 0
            /\ checkerCalls[t] = 0
            /\ chk[t] = NoChk
            /\ pc[t] # "checker"

\* C5 witness: a run over both limits was classified TIME_LIMIT_EXCEEDED.
C5_Witness ==
    \E t \in Cases :
        /\ res[t].status = STATUS_ACCEPTED
        /\ res[t].time > c[t].time
        /\ res[t].memory > c[t].memory * 1024
        /\ pc[t] = "done"
        /\ ret[t].kind = "value"
        /\ ret[t].status = STATUS_TIME_LIMIT_EXCEEDED

\* C6: a run reported ACCEPTED with time <= c.time and
\* memory > c.memory * 1024 is classified MEMORY_LIMIT_EXCEEDED with score 0
\* and never reaches the checker; a run with time and memory at or below
\* the limits (equal included) is no limit violation: it reaches the checker.
C6_MemoryLimit ==
    \A t \in Cases :
        /\ (/\ res[t].status = STATUS_ACCEPTED
            /\ res[t].time <= c[t].time
            /\ res[t].memory > c[t].memory * 1024) =>
                /\ status[t] = STATUS_MEMORY_LIMIT_EXCEEDED
                /\ score[t] = 0
                /\ checkerCalls[t] = 0
                /\ chk[t] = NoChk
                /\ pc[t] # "checker"
        /\ (/\ res[t].status = STATUS_ACCEPTED
            /\ res[t].time <= c[t].time
            /\ res[t].memory <= c[t].memory * 1024) =>
                /\ checkerCalls[t] = 1
                /\ chk[t] = NoChk => status[t] = STATUS_ACCEPTED

\* C6 witness: a run exactly at the time limit and one byte over the memory
\* limit was returned as MEMORY_LIMIT_EXCEEDED.
C6_Witness ==
    \E t \in Cases :
        /\ res[t].status = STATUS_ACCEPTED
        /\ res[t].time = c[t].time
        /\ res[t].memory = c[t].memory * 1024 + 1
        /\ pc[t] = "done"
        /\ ret[t].kind = "value"
        /\ ret[t].status = STATUS_MEMORY_LIMIT_EXCEEDED

\* C7: a run reported ACCEPTED within both limits has the checker invoked
\* exactly once, and from the checker's return on the attempt's status,
\* score and message are exactly the checker's; the result the attempt
\* returns carries them, with the time and memory the sandbox reported.
C7_CheckerVerdict ==
    \A t \in Cases :
        (/\ res[t].status = STATUS_ACCEPTED
         /\ res[t].time <= c[t].time
         /\ res[t].memory <= c[t].memory * 1024) =>
            /\ checkerCalls[t] = 1
            /\ pc[t] = "checker" <=> chk[t] = NoChk /\ ret[t].kind # "thrown"
            /\ chk[t] # NoChk =>
                  /\ status[t] = chk[t].status
                  /\ score[t] = chk[t].score
                  /\ message[t] = chk[t].message
            /\ (pc[t] = "done" /\ ret[t].kind = "value") =>
                  /\ ret[t].status = chk[t].status
                  /\ ret[t].score = chk[t].score
                  /\ ret[t].message = chk[t].message
                  /\ ret[t].time = res[t].time
                  /\ ret[t].memory = res[t].memory

\* C7 witness: the checker gave WRONG_ANSWER with a score and a message to a
\* run exactly at both limits, and that is what was returned.
C7_Witness ==
    \E t \in Cases :
        /\ res[t].status = STATUS_ACCEPTED
        /\ res[t].time = c[t].time
        /\ res[t].memory = c[t].memory * 1024
        /\ pc[t] = "done"
        /\ ret[t].kind = "value"
        /\ ret[t].status = STATUS_WRONG_ANSWER
        /\ ret[t].score = c[t].score
        /\ ret[t].message = CheckerMessage

\* The running attempt of case t has left judgeCase, by return or by throw,
\* after the sandbox had answered it.
Exited(t) == pc[t] \in {"unwind", "done"} /\ res[t] # NoRes

\* C8: in every attempt each file id of the sandbox response is passed to
\* del exactly once, whether the deletions then succeed or fail.
C8_EveryIdDeletedOnce ==
    \A t \in Cases :
        Exited(t) => \A f \in res[t].fileIds : delCalls[t][f] = 1

\* C9: once the sandbox has answered an attempt, the deletion of each of its
\* file ids has been attempted when the attempt leaves the case runner, on
\* the path where the checker throws as on the others.
C9_DeletionOnEveryExit ==
    \A t \in Cases :
        Exited(t) => \A f \in res[t].fileIds : delCalls[t][f] >= 1

\* C10 as stated: the returned status is never better than the raw status
\* of the first run of the invocation; a case whose first run was reported
\* or classified as a failure is never returned ACCEPTED, a retry included.
C10_NeverBetterThanFirstRun ==
    \A t \in Cases :
        (/\ pc[t] = "done"
         /\ ret[t].kind = "value"
         /\ (firstRaw[t] # STATUS_ACCEPTED \/ attempts[t] > 1))
        => ret[t].status # STATUS_ACCEPTED

\* C10 amended: within an attempt only a run reported ACCEPTED is changed,
\* a run reported as a failure keeps its raw status, and the returned
\* status is ACCEPTED only if the run of the attempt that produced the
\* result (the last one) was reported ACCEPTED.
C10_NeverBetterThanOwnRun ==
    \A t \in Cases :
        /\ res[t].status \notin {"none", STATUS_ACCEPTED} =>
              /\ status[t] = res[t].status
              /\ checkerCalls[t] = 0
        /\ (pc[t] = "done" /\ ret[t].kind = "value") =>
              /\ res[t].status # STATUS_ACCEPTED => ret[t].status = res[t].status
              /\ ret[t].status = STATUS_ACCEPTED =>
                    /\ res[t].status = STATUS_ACCEPTED
                    /\ chk[t].status = STATUS_ACCEPTED

\* C10 witness: the first run was reported TIME_LIMIT_EXCEEDED, the retry's
\* run was accepted, and ACCEPTED is what was returned.
C10_Witness ==
    \E t \in Cases :
        /\ pc[t] = "done"
        /\ firstRaw[t] = STATUS_TIME_LIMIT_EXCEEDED
        /\ attempts[t] = 2
        /\ res[t].status = STATUS_ACCEPTED
        /\ ret[t].kind = "value"
        /\ ret[t].status = STATUS_ACCEPTED

\* Every case of the submission, when every sandbox, checker, delete and
\* analysis call returns; the event loop runs a continuation once the
\* promise it waits for has settled.
NextLive ==
    \/ \E t \in Cases : Invoke(t, FALSE)
    \/ \E t \in Cases : Execute(t, FALSE)
    \/ \E t \in Cases : CheckerReturn(t, FALSE)
    \/ \E t \in Cases : DelSettle(t)
    \/ \E t \in Cases : AllSettled(t)
    \/ \E t \in Cases : AnalysisReturn(t)
    \/ \E t \in Cases : Unwind(t)

SpecLive == Init /\ [][NextLive]_vars /\ WF_vars(NextLive)

\* C11: when every external call returns, each invocation by the flow
\* engine eventually returns, and what it returns is one CaseResult with
\* id = c.id and the subtask's id; a result once returned is never replaced,
\* an attempt replaced by a retry returns nothing, and a case makes at most
\* initial rerun budget + 1 attempts.
C11_OneResultPerCase ==
    /\ [](\A t \in Cases :
            /\ attempts[t] <= initRerun + 1
            /\ ret[t].kind # "none" => pc[t] \in {"unwind", "done"}
            /\ pc[t] = "done" =>
                  /\ ret[t].kind = "value"
                  /\ ret[t].id = t
                  /\ ret[t].subtaskId = SubtaskId(t))
    /\ [][\A t \in Cases :
            /\ ret[t].kind # "none" => ret'[t] = ret[t]
            /\ RetryFires(t) => ret'[t] = NoRet]_vars
    /\ <>(\A t \in Cases : pc[t] = "done")

\* C11 witness: the last case was retried and its invocation returned the
\* one result, of the second attempt.
C11_Witness ==
    /\ pc[NumCases] = "done"
    /\ attempts[NumCases] = 2
    /\ ret[NumCases].kind = "value"
    /\ ret[NumCases].id = NumCases
    /\ ret[NumCases].status = STATUS_ACCEPTED

\* C14: for a run reported RUNTIME_ERROR with an exit code, the message is
\* the signal table's entry for the code when code < 32 and the process was
\* signalled, and the templated string carrying the code otherwise; with
\* code 0 or none the message stays empty.  The returned result carries it.
C14_RuntimeErrorMessage ==
    \A t \in Cases :
        res[t].status = STATUS_RUNTIME_ERROR =>
            /\ (res[t].code # 0 /\ res[t].code < 32 /\ res[t].signalled) =>
                  message[t] = [text |-> "signal", code |-> res[t].code]
            /\ (res[t].code # 0 /\ ~(res[t].code < 32 /\ res[t].signalled)) =>
                  message[t] = [text |-> "Your program returned {0}.",
                                code |-> res[t].code]
            /\ res[t].code = 0 => message[t] = [text |-> "", code |-> 0]
            /\ (pc[t] = "done" /\ ret[t].kind = "value") =>
                  ret[t].message = message[t]

\* C14 witness: a run killed by signal 11 was returned with the table's
\* entry for 11.
C14_Witness ==
    \E t \in Cases :
        /\ res[t].status = STATUS_RUNTIME_ERROR
        /\ res[t].code = 11
        /\ res[t].signalled
        /\ pc[t] = "done"
        /\ ret[t].kind = "value"
        /\ ret[t].status = STATUS_RUNTIME_ERROR
        /\ ret[t].message = signals(11)

\* C15: a run the sandbox did not report ACCEPTED keeps its status, has
\* score 0, never reaches the checker, and has an empty message unless it
\* is a RUNTIME_ERROR with an exit code; a score other than 0 is the score a
\* checker returned.
C15_FailurePassesThrough ==
    \A t \in Cases :
        /\ res[t].status \notin {"none", STATUS_ACCEPTED} =>
              /\ status[t] = res[t].status
              /\ score[t] = 0
              /\ checkerCalls[t] = 0
              /\ chk[t] = NoChk
              /\ ~(res[t].status = STATUS_RUNTIME_ERROR /\ res[t].code # 0) =>
                    message[t] = NoMessage
              /\ (pc[t] = "done" /\ ret[t].kind = "value") =>
                    /\ ret[t].status = res[t].status
                    /\ ret[t].score = 0
                    /\ ret[t].message = message[t]
        /\ score[t] # 0 => (chk[t] # NoChk /\ score[t] = chk[t].score)
        /\ (ret[t].kind = "value" /\ ret[t].score # 0) =>
              (chk[t] # NoChk /\ ret[t].score = chk[t].score)

\* C15 witness: a run reported TIME_LIMIT_EXCEEDED with exit code 9 of a
\* case too long to retry was returned as it was, with no message.
C15_Witness ==
    \E t \in Cases :
        /\ res[t].status = STATUS_TIME_LIMIT_EXCEEDED
        /\ res[t].code = 9
        /\ res[t].signalled
        /\ attempts[t] = 1
        /\ pc[t] = "done"
        /\ ret[t].kind = "value"
        /\ ret[t].status = STATUS_TIME_LIMIT_EXCEEDED
        /\ ret[t].score = 0
        /\ ret[t].message = NoMessage

\* The sandbox call of the attempt of case t fails in this step.
ExecuteFails(t) == pc[t] = "exec" /\ pc'[t] \in {"unwind", "done"}

\* C17: when the sandbox call of an attempt fails, the failure leaves the
\* case runner: no CaseResult is returned, the attempt has called neither
\* the checker nor del, it leaves rerun and the analysis flag as they were,
\* and the callers hand the failure on, never a verdict.
C17_ExecuteFailurePropagates ==
    [][\A t \in Cases :
        /\ ExecuteFails(t) =>
              /\ ret'[t] = Thrown
              /\ rerun' = rerun
              /\ analysis' = analysis
              /\ retries' = retries
              /\ analysisCalls' = analysisCalls
              /\ checkerCalls'[t] = 0
              /\ \A f \in FileNames : delCalls'[t][f] = 0 /\ dels'[t][f] = "none"
        /\ ret[t] = Thrown => ret'[t] = Thrown
      ]_vars

\* C17 witness: the sandbox call of a retried attempt failed and the flow
\* engine's invocation ended with the failure.
C17_Witness ==
    \E t \in Cases :
        /\ pc[t] = "done"
        /\ ret[t] = Thrown
        /\ res[t] = NoRes
        /\ attempts[t] = 2
        /\ rerun = initRerun - 1

\* C19: the analysis flag is set in the step that starts the analysis call
\* and is never cleared; the attempt that waits for the analysis ends with
\* its own result or, when the call fails, with the failure; the analysis is
\* never started a second time; and an attempt that passes line 58 with the
\* flag set returns its result in that step, whether or not another case's
\* analysis is still in flight.
C19_AnalysisFlagSticks ==
    [][/\ analysis => analysis'
       /\ analysisCalls' <= 1
       /\ \A t \in Cases :
            /\ pc'[t] = "analysis" => analysis'
            /\ (pc[t] = "analysis" /\ pc'[t] # "analysis") =>
                  /\ analysis'
                  /\ analysisCalls' = analysisCalls
                  /\ ret'[t].kind \in {"value", "thrown"}
                  /\ ret'[t].kind = "value" => ret'[t].status = status[t]
            /\ (Decides(t) /\ ~RetryFires(t) /\ analysis) =>
                  /\ pc'[t] \in {"unwind", "done"}
                  /\ ret'[t].kind = "value"
                  /\ ret'[t].status = status[t]
      ]_vars

\* C19 witness: the analysis one case started has failed, and another case
\* that ended RUNTIME_ERROR or WRONG_ANSWER returned its result while a
\* single analysis call was made.
C19_Witness ==
    \E t, u \in Cases :
        /\ t # u
        /\ pc[t] = "done"
        /\ ret[t] = Thrown
        /\ status[t] = STATUS_RUNTIME_ERROR
        /\ analysis
        /\ analysisCalls = 1
        /\ pc[u] = "done"
        /\ ret[u].kind = "value"
        /\ ret[u].status \in {STATUS_WRONG_ANSWER, STATUS_RUNTIME_ERROR}

\* A fixed outcome per (case, attempt number): the n-th run of case t is
\* reported TIME_LIMIT_EXCEEDED when n = 1 and ACCEPTED within the limits
\* afterwards, and the checker accepts it.
ScriptRun(t, n) ==
    [status |-> IF n = 1 THEN STATUS_TIME_LIMIT_EXCEEDED ELSE STATUS_ACCEPTED,
     code |-> 0, signalled |-> FALSE, time |-> c[t].time,
     memory |-> c[t].memory * MemoryUnit, fileIds |-> {"stdout"}]

ScriptChk(t, n) ==
    [status |-> STATUS_ACCEPTED, score |-> c[t].score, message |-> NoMessage]

\* Every case of the submission, concurrently, with the sandbox and the
\* checker answering by the script.
NextDet ==
    \/ \E t \in Cases : Invoke(t, FALSE)
    \/ \E t \in Cases : Execute(t, FALSE) /\ res'[t] = ScriptRun(t, attempts[t])
    \/ \E t \in Cases : CheckerReturn(t, FALSE) /\ chk'[t] = ScriptChk(t, attempts[t])
    \/ \E t \in Cases : DelSettle(t)
    \/ \E t \in Cases : AllSettled(t)
    \/ \E t \in Cases : Unwind(t)

SpecDet == Init /\ [][NextDet]_vars

\* The run in which the flow engine's invocations execute one after the
\* other, in the order of the cases: the budget case t finds, whether it
\* retries, and the status it returns under the script.
RECURSIVE SeqBudget(_)
SeqBudget(t) ==
    IF t = 1 THEN initRerun
    ELSE LET b == SeqBudget(t - 1)
         IN  IF b > 0 /\ c[t - 1].time <= 5000 THEN b - 1 ELSE b

SeqStatus(t) ==
    IF SeqBudget(t) > 0 /\ c[t].time <= 5000
    THEN STATUS_ACCEPTED
    ELSE STATUS_TIME_LIMIT_EXCEEDED

\* C13: for fixed sandbox and checker outcomes per (case, attempt number)
\* the result returned for each case is the same under every interleaving:
\* it is the result the case gets when the invocations run one after the
\* other, whichever case's timeout reaches the rerun budget first.
C13_SameResultUnderEveryInterleaving ==
    \A t \in Cases :
        pc[t] = "done" =>
            /\ ret[t].kind = "value"
            /\ ret[t].status = SeqStatus(t)

\* The whole flow of judge(): the compile stage, then every case.
InitJudge ==
    /\ InitCtx
    /\ c \in [Cases -> NormalizedCases(FALSE)]
    /\ InitFrames(Cases)
    /\ InitFlow(FALSE)

NextJudge ==
    \/ Compile
    \/ CompileSettle
    \/ CompileResolve
    \/ CompileReject
    \/ \E t \in Cases : Invoke(t, FALSE)
    \/ \E t \in Cases : Execute(t, FALSE)
    \/ \E t \in Cases : ExecuteFail(t)
    \/ \E t \in Cases : CheckerReturn(t, FALSE)
    \/ \E t \in Cases : CheckerFail(t)
    \/ \E t \in Cases : DelSettle(t)
    \/ \E t \in Cases : AllSettled(t)
    \/ \E t \in Cases : AnalysisReturn(t)
    \/ \E t \in Cases : AnalysisFail(t)
    \/ \E t \in Cases : Unwind(t)

SpecJudge == InitJudge /\ [][NextJudge]_vars

\* C12: the compile stage starts both compilations together and completes
\* only when both have succeeded, assigning ctx.execute and ctx.checker in
\* one step; once a compilation has failed the stage cannot complete, no
\* handle is assigned, no compilation is started again, and no case runner
\* invocation starts unless the stage has completed.
C12_CompileBothOrNothing ==
    [][/\ (stage = "start" /\ stage' # "start") =>
             /\ stage' = "compile"
             /\ \A k \in CompileJobs : compiles'[k] = "pending"
       /\ stage' = "judging" =>
             /\ \A k \in CompileJobs : compiles'[k] = "ok"
             /\ execute' = "compiled"
             /\ checker' = "compiled"
       /\ stage' # "judging" => (execute' = "unset" /\ checker' = "unset")
       /\ (\E k \in CompileJobs : compiles[k] = "failed") =>
             /\ stage' \in {"compile", "failed"}
             /\ stage = "failed" => stage' = "failed"
       /\ \A k \in CompileJobs :
             compiles[k] \in {"ok", "failed"} => compiles'[k] = compiles[k]
       /\ \A t \in Cases : (pc'[t] # "ready" \/ attempts'[t] > 0) => stage' = "judging"
      ]_vars

\* C12 witness: the submission compiled, the checker did not; the stage
\* failed with both handles unassigned and every case still waiting.
C12_Witness ==
    /\ stage = "failed"
    /\ compiles["execute"] = "ok"
    /\ compiles["checker"] = "failed"
    /\ execute = "unset"
    /\ checker = "unset"
    /\ \A t \in Cases : pc[t] = "ready" /\ attempts[t] = 0

\* C16: a case runner invocation changes no shared state but ctx.rerun and
\* ctx.analysis: the NormalizedCase, the SubtaskContext, ctx.env, ctx.execute
\* and ctx.checker are the same after every step of every attempt, whatever
\* path the attempt takes.
C16_OnlyBudgetAndFlagChange ==
    [][/\ c' = c
       /\ ctxSubtask' = ctxSubtask
       /\ env' = env
       /\ execute' = execute
       /\ checker' = checker
       /\ rejudged' = rejudged
      ]_vars

\* C16 witness: one case was retried and then accepted by the checker,
\* another ended RUNTIME_ERROR and the analysis ran; the budget and the flag
\* have changed and the rest of the shared state is as it was compiled.
C16_Witness ==
    \E t, u \in Cases :
        /\ t # u
        /\ pc[t] = "done" /\ pc[u] = "done"
        /\ attempts[t] = 2
        /\ checkerCalls[t] = 1
        /\ ret[t].kind = "value" /\ ret[t].status = STATUS_ACCEPTED
        /\ ret[u].kind = "value" /\ ret[u].status = STATUS_RUNTIME_ERROR
        /\ analysis
        /\ analysisCalls = 1
        /\ rerun = initRerun - 1
        /\ env = {}
        /\ execute = "compiled" /\ checker = "compiled"
        /\ ctxSubtask[t].subtask.id = SubtaskId(t)

\* The attempts of case t that have a file id returned by the sandbox whose
\* deletion has not settled.
OpenAttempts(t) == {e[1] : e \in open[t]}

\* C18: del is called on the file ids of a run only once the run needs no
\* checker or the checker has returned, and while the checker runs every id
\* of the run is still there; every deletion of an attempt has settled
\* before line 56 submits the retry and before line 60 starts the analysis;
\* so the ids with an unsettled deletion belong to one attempt at most.
C18_DeleteAfterCheckerBeforeRetry ==
    [][\A t \in Cases :
        /\ (\E f \in FileNames : delCalls'[t][f] > delCalls[t][f]) =>
              /\ pc[t] \in {"exec", "checker"}
              /\ pc[t] = "exec" => ~NeedsChecker(res'[t], c[t])
              /\ pc[t] = "checker" => chk'[t] # NoChk
        /\ pc'[t] = "checker" =>
              /\ \A f \in FileNames : dels'[t][f] = "none"
              /\ open'[t] = {attempts'[t]} \X res'[t].fileIds
        /\ (RetryFires(t) \/ (pc[t] # "analysis" /\ pc'[t] = "analysis")) =>
              /\ \A f \in FileNames : dels[t][f] # "pending"
              /\ open[t] = {}
        /\ Cardinality({e[1] : e \in open'[t]}) <= 1
      ]_vars

\* C18 witness: the retried run of a case is with the checker, its file ids
\* are all there and none of the first run is.
C18_Witness ==
    \E t \in Cases :
        /\ pc[t] = "checker"
        /\ attempts[t] = 2
        /\ res[t].fileIds # {}
        /\ OpenAttempts(t) = {2}
        /\ \A f \in res[t].fileIds : <<2, f>> \in open[t]
====
